---- MODULE Spec2Model ----
(***************************************************************************)
(* Model of s1vm's closure compiler (src/compiler.rs): the compile-time    *)
(* operand stack, the recursive block compiler, the run-time behaviour of  *)
(* the emitted closures (Block::run, if steps, return steps, operand       *)
(* closures) and the integer operation generators of impl_numeric_ops.     *)
(*                                                                         *)
(* A StackValue is a 64-bit cell.  TLC's integers are 32 bits wide, so a   *)
(* value is a little-endian sequence of 16-bit limbs: two limbs for the    *)
(* i32/u32 view of a cell, four for the i64/u64 view and for the cell.     *)
(***************************************************************************)
EXTENDS Integers, Sequences, FiniteSets, TLC

VARIABLES
  module,     \* Compiler.module: the functions to compile, [code, ret]
  compiled,   \* Compiler.compiled: the functions compiled so far
  idx,        \* the loop variable of Compiler::compile
  result,     \* what Compiler::compile returned, or "Compiling"
  inv,        \* the last invocation of a compiled function, or "None"
  blk,        \* the last direct Block::run on a block of given steps
  num         \* the last application of an operation generator

vars == <<module, compiled, idx, result, inv, blk, num>>

(***************************************************************************)
(* Fixed-width values                                                      *)
(***************************************************************************)
Base == 2^16

\* limbs of the i32/u32 view and of the i64/u64 view of a cell
Limbs(ty) == IF ty = "i32" THEN 2 ELSE 4

\* the sequence <<F(i), ..., F(n)>>, built eagerly
RECURSIVE Build(_, _, _)
Build(F(_), i, n) == IF i > n THEN <<>> ELSE <<F(i)>> \o Build(F, i + 1, n)

Zero(n) == Build(LAMBDA i : 0, 1, n)
One(n) == Build(LAMBDA i : IF i = 1 THEN 1 ELSE 0, 1, n)
Ones(n) == Build(LAMBDA i : Base - 1, 1, n)
MinVal(n) == Build(LAMBDA i : IF i = n THEN Base \div 2 ELSE 0, 1, n)
MaxVal(n) == Build(LAMBDA i : IF i = n THEN (Base \div 2) - 1 ELSE Base - 1, 1, n)

\* an i32 literal as two limbs (two's complement)
I32(k) == <<k % Base, (k \div Base) % Base>>

IsNeg(v) == v[Len(v)] >= Base \div 2
IsZero(v) == \A i \in 1..Len(v) : v[i] = 0

\* `x as iN` / `x as uN` to a narrower type: truncation
Trunc(v, n) == SubSeq(v, 1, n)
\* `x as _` from a signed type to a wider one: sign extension
SignExt(v, n) ==
  Build(LAMBDA i : IF i <= Len(v) THEN v[i] ELSE IF IsNeg(v) THEN Base - 1 ELSE 0, 1, n)
\* `x as _` from an unsigned type (or bool) to a wider one: zero extension
ZeroExt(v, n) == Build(LAMBDA i : IF i <= Len(v) THEN v[i] ELSE 0, 1, n)

RECURSIVE AddFrom(_, _, _, _)
AddFrom(a, b, i, c) ==
  IF i > Len(a) THEN <<>>
  ELSE LET s == a[i] + b[i] + c
       IN <<s % Base>> \o AddFrom(a, b, i + 1, s \div Base)

WrappingAdd(a, b) == AddFrom(a, b, 1, 0)
BitNot(a) == Build(LAMBDA i : Base - 1 - a[i], 1, Len(a))
WrappingNeg(a) == WrappingAdd(BitNot(a), One(Len(a)))
WrappingSub(a, b) == WrappingAdd(a, WrappingNeg(b))

RECURSIVE LimbBitOp(_, _, _, _)
LimbBitOp(f, x, y, k) ==
  IF k = 0 THEN 0
  ELSE LET p == x % 2
           q == y % 2
           b == CASE f = "and" -> p * q
                  [] f = "or" -> IF p + q > 0 THEN 1 ELSE 0
                  [] f = "xor" -> (p + q) % 2
       IN b + 2 * LimbBitOp(f, x \div 2, y \div 2, k - 1)

BitOp(f, a, b) == Build(LAMBDA i : LimbBitOp(f, a[i], b[i], 16), 1, Len(a))

\* limb i of a, and `out` beyond its ends
LimbAt(a, i, out) == IF i >= 1 /\ i <= Len(a) THEN a[i] ELSE out

\* shift left by k bits, 0 <= k < 16 * Len(a)
ShlBy(a, k) ==
  Build(LAMBDA i : ((LimbAt(a, i - (k \div 16), 0) * 2^(k % 16)) % Base)
                   + (LimbAt(a, i - (k \div 16) - 1, 0) \div 2^(16 - (k % 16))),
        1, Len(a))
Shl1(a) == ShlBy(a, 1)

\* arithmetic shift right by k bits (the signed types' >>): the sign bit
\* fills the top
SarBy(a, k) ==
  Build(LAMBDA i :
          (LimbAt(a, i + (k \div 16), IF IsNeg(a) THEN Base - 1 ELSE 0) \div 2^(k % 16))
          + ((LimbAt(a, i + (k \div 16) + 1, IF IsNeg(a) THEN Base - 1 ELSE 0) % 2^(k % 16))
             * 2^(16 - (k % 16))),
        1, Len(a))

RECURSIVE ULtFrom(_, _, _)
ULtFrom(a, b, i) ==
  IF i = 0 THEN FALSE
  ELSE IF a[i] # b[i] THEN a[i] < b[i]
  ELSE ULtFrom(a, b, i - 1)

ULt(a, b) == ULtFrom(a, b, Len(a))
SLt(a, b) == IF IsNeg(a) # IsNeg(b) THEN IsNeg(a) ELSE ULt(a, b)

\* a times the single limb m plus carry c, from limb i on, truncated to
\* Len(a) limbs; the 32-bit product is formed from two 24-bit halves
RECURSIVE MulLimb(_, _, _, _)
MulLimb(a, m, i, c) ==
  IF i > Len(a) THEN <<>>
  ELSE <<(((a[i] % 256) * m) + ((((a[i] \div 256) * m) % 256) * 256) + c) % Base>>
       \o MulLimb(a, m, i + 1,
                  ((((a[i] % 256) * m) + ((((a[i] \div 256) * m) % 256) * 256) + c) \div Base)
                  + (((a[i] \div 256) * m) \div 256))

\* the sum over j >= i of a * b[j] * Base^(j - 1), truncated
RECURSIVE MulFrom(_, _, _)
MulFrom(a, b, j) ==
  IF j > Len(b) THEN Zero(Len(a))
  ELSE WrappingAdd(ShlBy(MulLimb(a, b[j], 1, 0), 16 * (j - 1)), MulFrom(a, b, j + 1))

WrappingMul(a, b) == MulFrom(a, b, 1)

High(rq) == SubSeq(rq, (Len(rq) \div 2) + 1, Len(rq))
Low(rq) == SubSeq(rq, 1, Len(rq) \div 2)

\* restoring long division on the register pair rq = quotient limbs, then
\* remainder limbs: k more rounds of shift left, compare, subtract
RECURSIVE UDivRec(_, _, _)
UDivRec(rq, d, k) ==
  IF k = 0 THEN rq
  ELSE IF ULt(High(Shl1(rq)), d) THEN UDivRec(Shl1(rq), d, k - 1)
  ELSE UDivRec(WrappingAdd(Low(Shl1(rq)), One(Len(d)))
                 \o WrappingSub(High(Shl1(rq)), d), d, k - 1)

\* <<quotient, remainder>> of the magnitudes n and d
UDivMod(n, d) ==
  <<Low(UDivRec(n \o Zero(Len(n)), d, 16 * Len(n))),
    High(UDivRec(n \o Zero(Len(n)), d, 16 * Len(n)))>>
Abs(a) == IF IsNeg(a) THEN WrappingNeg(a) ELSE a

None == [some |-> FALSE]
Some(v) == [some |-> TRUE, val |-> v]

\* iN::checked_div: None for a zero divisor and for MIN / -1, else the
\* quotient truncated toward zero
CheckedDiv(a, b) ==
  IF IsZero(b) \/ (a = MinVal(Len(a)) /\ b = Ones(Len(a))) THEN None
  ELSE LET q == UDivMod(Abs(a), Abs(b))[1]
       IN Some(IF IsNeg(a) # IsNeg(b) THEN WrappingNeg(q) ELSE q)

\* iN::checked_rem: None in the same cases, else the remainder with the
\* sign of the dividend
CheckedRem(a, b) ==
  IF IsZero(b) \/ (a = MinVal(Len(a)) /\ b = Ones(Len(a))) THEN None
  ELSE LET r == UDivMod(Abs(a), Abs(b))[2]
       IN Some(IF IsNeg(a) THEN WrappingNeg(r) ELSE r)

(***************************************************************************)
(* Compile-time data: Input, Block, State                                  *)
(***************************************************************************)
\* enum Input: Local(u32), Const(StackValue), Op(OpFunc)
Local(local_idx) == [tag |-> "Local", idx |-> local_idx]
Const(const_val) == [tag |-> "Const", val |-> const_val]
Op(closure) == [tag |-> "Op", f |-> closure]

\* enum Action: Return(Option<StackValue>), End, Branch(u32)
Return(v) == [a |-> "Return", val |-> v, depth |-> 0]
End == [a |-> "End", val |-> None, depth |-> 0]
Branch(d) == [a |-> "Branch", val |-> None, depth |-> d]

\* outcomes of compile-time functions: Ok, Err(Error::...), or a panic
CErr(e) == [tag |-> "Err", err |-> e]
CPanic(m) == [tag |-> "Panic", msg |-> m]
COk(st) == [tag |-> "Ok", state |-> st]
COkBlock(st, b) == [tag |-> "Ok", state |-> st, block |-> b]

Block_new(kind, depth) == [kind |-> kind, depth |-> depth, eval |-> <<>>]
Block_push(block, f) == [block EXCEPT !.eval = Append(@, f)]

State_new == [values |-> <<>>, depth |-> 0, pc |-> 0]

State_pop(state) ==
  IF state.values = <<>> THEN CErr("ValidationError: Value stack empty")
  ELSE [tag |-> "Ok",
        val |-> state.values[Len(state.values)],
        state |-> [state EXCEPT !.values = SubSeq(@, 1, Len(@) - 1)]]

State_push(state, input) == [state EXCEPT !.values = Append(@, input)]

(***************************************************************************)
(* Operation generators (compile-time half): which closure is emitted      *)
(***************************************************************************)
\* impl_int_binops whose Op/Op closure runs right_closure for the left
\* operand and left_closure for the right one
impl_int_binops_swapped(state, ty, op) ==
  LET r == State_pop(state) IN
  IF r.tag # "Ok" THEN r ELSE
  LET l == State_pop(r.state) IN
  IF l.tag # "Ok" THEN l ELSE
  LET right == r.val
      left == l.val
      closure ==
        CASE left.tag = "Local" /\ right.tag = "Const" ->
               [fn |-> "BinLocalConst", ty |-> ty, op |-> op,
                left |-> left.idx, right |-> right.val]
          [] left.tag = "Op" /\ right.tag = "Local" ->
               [fn |-> "BinOpLocal", ty |-> ty, op |-> op,
                left |-> left.f, right |-> right.idx]
          [] left.tag = "Op" /\ right.tag = "Const" ->
               [fn |-> "BinOpConst", ty |-> ty, op |-> op,
                left |-> left.f, right |-> right.val]
          [] left.tag = "Op" /\ right.tag = "Op" ->
               [fn |-> "BinOpOp", ty |-> ty, op |-> op,
                left |-> right.f, right |-> left.f]
          [] OTHER ->
               [fn |-> "BinSlow", ty |-> ty, op |-> op,
                left |-> left, right |-> right]
  IN COk(State_push(l.state, Op(closure)))

\* impl_int_binops, three-argument form: add, sub, mul, and, or, xor
impl_int_binops(state, ty, op) ==
  LET r == State_pop(state) IN
  IF r.tag # "Ok" THEN r ELSE
  LET l == State_pop(r.state) IN
  IF l.tag # "Ok" THEN l ELSE
  LET right == r.val
      left == l.val
      closure ==
        CASE left.tag = "Local" /\ right.tag = "Const" ->
               [fn |-> "BinLocalConst", ty |-> ty, op |-> op,
                left |-> left.idx, right |-> right.val]
          [] left.tag = "Op" /\ right.tag = "Local" ->
               [fn |-> "BinOpLocal", ty |-> ty, op |-> op,
                left |-> left.f, right |-> right.idx]
          [] left.tag = "Op" /\ right.tag = "Const" ->
               [fn |-> "BinOpConst", ty |-> ty, op |-> op,
                left |-> left.f, right |-> right.val]
          [] left.tag = "Op" /\ right.tag = "Op" ->
               [fn |-> "BinOpOp", ty |-> ty, op |-> op,
                left |-> left.f, right |-> right.f]
          [] OTHER ->
               [fn |-> "BinSlow", ty |-> ty, op |-> op,
                left |-> left, right |-> right]
  IN COk(State_push(l.state, Op(closure)))

\* impl_int_binops, five-argument form with a mask: shl, shr_s, shr_u
impl_int_binops_mask(state, ty, op, mask) ==
  LET r == State_pop(state) IN
  IF r.tag # "Ok" THEN r ELSE
  LET l == State_pop(r.state) IN
  IF l.tag # "Ok" THEN l ELSE
  COk(State_push(l.state,
        Op([fn |-> "Shift", ty |-> ty, op |-> op, mask |-> mask,
            left |-> l.val, right |-> r.val])))

\* impl_int_relops, two-operand form: eq, ne, lt_s, lt_u, gt_s, ...
impl_int_relops(state, ty, relop) ==
  LET r == State_pop(state) IN
  IF r.tag # "Ok" THEN r ELSE
  LET l == State_pop(r.state) IN
  IF l.tag # "Ok" THEN l ELSE
  LET right == r.val
      left == l.val
      closure ==
        IF left.tag = "Local" /\ right.tag = "Const"
        THEN [fn |-> "RelLocalConst", ty |-> ty, op |-> relop,
              left |-> left.idx, right |-> right.val]
        ELSE [fn |-> "RelSlow", ty |-> ty, op |-> relop,
              left |-> left, right |-> right]
  IN COk(State_push(l.state, Op(closure)))

(***************************************************************************)
(* Compiler                                                                *)
(***************************************************************************)
Instr(op, arg) == [op |-> op, arg |-> arg]

\* Compiler::emit_return
emit_return(c, state, block) ==
  IF c.ret_type
  THEN LET p == State_pop(state) IN
       IF p.tag # "Ok" THEN p
       ELSE LET ret == p.val
                step == CASE ret.tag = "Local" -> [fn |-> "RetLocal", local_idx |-> ret.idx]
                          [] ret.tag = "Const" -> [fn |-> "RetConst", const_val |-> ret.val]
                          [] ret.tag = "Op" -> [fn |-> "RetOp", closure |-> ret.f]
            IN COkBlock(p.state, Block_push(block, step))
  ELSE COkBlock(state, Block_push(block, [fn |-> "RetNone"]))

\* `if state.depth > 4 { panic!("compile overflow") }`
DepthCap == 4

RECURSIVE compile_block(_, _, _)
RECURSIVE compile_ops(_, _, _, _)
RECURSIVE compile_if(_, _, _)

\* Compiler::compile_loop
compile_loop(c, state) == compile_block(c, state, "Loop")

\* Compiler::compile_else
compile_else(c, state) == compile_block(c, state, "Else")

\* compile_block without the `state.depth -= 1` before `Ok(block)`
compile_block_deeper(c, state, kind) ==
  LET block == Block_new(kind, state.depth)
      entered == [state EXCEPT !.depth = @ + 1]
  IN IF entered.depth > DepthCap THEN CPanic("compile overflow")
     ELSE LET r == compile_ops(c, entered, block, kind)
          IN IF r.tag # "Ok" THEN r
             ELSE COkBlock(r.state, r.block)

\* Compiler::compile_block: the prologue and epilogue around the opcode loop
compile_block(c, state, kind) ==
  LET block == Block_new(kind, state.depth)
      entered == [state EXCEPT !.depth = @ + 1]
  IN IF entered.depth > DepthCap THEN CPanic("compile overflow")
     ELSE LET r == compile_ops(c, entered, block, kind)
          IN IF r.tag # "Ok" THEN r
             ELSE COkBlock([r.state EXCEPT !.depth = @ - 1], r.block)

\* Compiler::compile_block: the `loop { match op { ... }; state.pc += 1 }`
compile_ops(c, state, block, kind) ==
  IF state.pc > c.pc_end THEN COkBlock(state, block)
  ELSE IF state.pc >= Len(c.code) THEN CPanic("index out of bounds")
  ELSE
    LET op == c.code[state.pc + 1]
        continue(st, b) == compile_ops(c, [st EXCEPT !.pc = @ + 1], b, kind)
        gen(r) == IF r.tag # "Ok" THEN r ELSE continue(r.state, block)
    IN CASE op.op = "Block" ->
              \* the child Block is compiled and dropped
              LET r == compile_block(c, [state EXCEPT !.pc = @ + 1], "Block")
              IN IF r.tag # "Ok" THEN r ELSE continue(r.state, block)
         [] op.op = "Loop" ->
              LET r == compile_loop(c, [state EXCEPT !.pc = @ + 1])
              IN IF r.tag # "Ok" THEN r ELSE continue(r.state, block)
         [] op.op = "If" ->
              LET r == compile_if(c, block, [state EXCEPT !.pc = @ + 1])
              IN IF r.tag # "Ok" THEN r ELSE continue(r.state, r.block)
         [] op.op = "Else" ->
              IF kind = "If" THEN COkBlock(state, block)
              ELSE CErr("ValidationError: invalid 'else' block, missing 'if'")
         [] op.op = "End" -> COkBlock(state, block)
         [] op.op = "Return" ->
              LET r == emit_return(c, state, block)
              IN IF r.tag # "Ok" THEN r ELSE continue(r.state, r.block)
         [] op.op \in {"Br", "BrIf", "BrTable"} -> CPanic("not yet implemented")
         [] op.op = "Call" ->
              LET p == State_pop(state)
              IN IF p.tag # "Ok" THEN p
                 ELSE continue(State_push(p.state,
                                 Op([fn |-> "Call", idx |-> op.arg, val |-> p.val])),
                               block)
         [] op.op = "GetLocal" -> continue(State_push(state, Local(op.arg)), block)
         [] op.op = "I32Const" ->
              continue(State_push(state, Const(SignExt(I32(op.arg), 4))), block)
         [] op.op = "I64Const" -> continue(State_push(state, Const(op.arg)), block)
         [] op.op = "I32Add" -> gen(impl_int_binops(state, "i32", "add"))
         [] op.op = "I32Sub" -> gen(impl_int_binops(state, "i32", "sub"))
         [] op.op = "I32LtS" -> gen(impl_int_relops(state, "i32", "lt_s"))
         [] OTHER -> CPanic("not yet implemented: implment opcode")

\* Compiler::compile_if
compile_if(c, parent, state) ==
  LET p == State_pop(state) IN
  IF p.tag # "Ok" THEN p ELSE
  LET val == p.val
      t == compile_block(c, p.state, "If")
  IN IF t.tag # "Ok" THEN t
     ELSE IF t.state.pc >= Len(c.code) THEN CPanic("index out of bounds")
     ELSE LET term == c.code[t.state.pc + 1].op
              if_block == t.block
          IN CASE term = "Else" ->
                    LET e == compile_else(c, t.state)
                    IN IF e.tag # "Ok" THEN e
                       ELSE COkBlock(e.state, Block_push(parent,
                              IF val.tag = "Op"
                              THEN [fn |-> "IfElseOp", closure |-> val.f,
                                    if_block |-> if_block, else_block |-> e.block]
                              ELSE [fn |-> "IfElse", val |-> val,
                                    if_block |-> if_block, else_block |-> e.block]))
               [] term = "End" ->
                    COkBlock(t.state, Block_push(parent,
                      IF val.tag = "Op"
                      THEN [fn |-> "IfOp", closure |-> val.f, if_block |-> if_block]
                      ELSE [fn |-> "If", val |-> val, if_block |-> if_block]))
               [] OTHER -> CPanic("unreachable: missing end of 'If' block")

\* Compiler::compile_function: Ok carries the Function pushed to `compiled`
compile_function(mod, func_idx) ==
  IF func_idx >= Len(mod) THEN CErr("FuncNotFound")
  ELSE LET func == mod[func_idx + 1]
           c == [code |-> func.code, ret_type |-> func.ret, pc_end |-> Len(func.code)]
           r == compile_block(c, State_new, "Block")
       IN IF r.tag # "Ok" THEN r
          ELSE [tag |-> "Ok", function |-> [func |-> func_idx, block |-> r.block]]

(***************************************************************************)
(* Operation semantics (run-time half of the generators)                   *)
(***************************************************************************)
\* `$mask` of the shl/shr_s/shr_u instantiations, for both widths
ShiftMask == 31

Bool(b) == IF b THEN One(4) ELSE Zero(4)

\* (left.0 as $type).$op(right.0 as $type), stored back as StackValue(res as _)
binop(ty, op, left, right) ==
  LET a == Trunc(left, Limbs(ty))
      b == Trunc(right, Limbs(ty))
      res == CASE op = "add" -> WrappingAdd(a, b)
               [] op = "sub" -> WrappingSub(a, b)
               [] op = "mul" -> WrappingMul(a, b)
               [] op = "and" -> BitOp("and", a, b)
               [] op = "or" -> BitOp("or", a, b)
               [] op = "xor" -> BitOp("xor", a, b)
  IN SignExt(res, 4)

\* $relop(left.0 as $type, right.0 as $type2), stored back as StackValue(res as _)
relop(ty, op, left, right) ==
  LET a == Trunc(left, Limbs(ty))
      b == Trunc(right, Limbs(ty))
  IN Bool(CASE op = "eq" -> a = b
            [] op = "ne" -> a # b
            [] op = "lt_s" -> SLt(a, b)
            [] op = "lt_u" -> ULt(a, b)
            [] op = "gt_s" -> SLt(b, a)
            [] op = "gt_u" -> ULt(b, a)
            [] op = "le_s" -> ~SLt(b, a)
            [] op = "le_u" -> ~ULt(b, a)
            [] op = "ge_s" -> ~SLt(a, b)
            [] op = "ge_u" -> ~ULt(a, b))

\* iN::wrapping_shl(rhs: u32): shifts by rhs modulo the bit width of iN
wrapping_shl(a, rhs) == ShlBy(a, rhs[1] % (16 * Len(a)))
\* iN::wrapping_shr(rhs: u32) on the signed type: arithmetic shift
wrapping_shr(a, rhs) == SarBy(a, rhs[1] % (16 * Len(a)))

\* the body of the shl / shr_s / shr_u closures once both operands are resolved
shiftop(ty, op, mask, left, right) ==
  LET masked == BitOp("and", Trunc(right, Limbs(ty)), ZeroExt(<<mask>>, Limbs(ty)))
      amount == Trunc(masked, 2)                  \* `right as u32`
      a == Trunc(left, Limbs(ty))
      res == IF op = "shl" THEN wrapping_shl(a, amount) ELSE wrapping_shr(a, amount)
  IN ZeroExt(res, 4)                               \* `as $type_u`, then `as _`

\* the instantiations of impl_int_binops_div in impl_numeric_ops: ($op, $as_type)
int_div_ops ==
  [div_s |-> [op |-> "checked_div", as_type |-> "i64"],
   div_u |-> [op |-> "checked_div", as_type |-> "u64"],
   rem_s |-> [op |-> "checked_rem", as_type |-> "i64"],
   rem_u |-> [op |-> "checked_rem", as_type |-> "u64"]]

\* impl_int_binops_div with the two trap kinds of ok_or_else exchanged
impl_int_binops_div_swapped(ty, name, left, right) ==
  LET a == Trunc(left, Limbs(ty))
      b == Trunc(right, Limbs(ty))
      res == IF int_div_ops[name].op = "checked_div" THEN CheckedDiv(a, b)
             ELSE CheckedRem(a, b)
  IN IF res.some
     THEN [tag |-> "Ok", val |-> SignExt(res.val, 4), kind |-> ""]
     ELSE [tag |-> "Trap", val |-> Zero(4),
           kind |-> IF IsZero(b) THEN "InvalidConversionToInt" ELSE "DivisionByZero"]

\* the closure impl_int_binops_div hands to store.stack.binop: Ok carries the
\* value written to *left.  $type is the signed type in all four instantiations;
\* `res as i64` and `res as u64` both sign-extend a signed res
impl_int_binops_div(ty, name, left, right) ==
  LET a == Trunc(left, Limbs(ty))
      b == Trunc(right, Limbs(ty))
      res == IF int_div_ops[name].op = "checked_div" THEN CheckedDiv(a, b)
             ELSE CheckedRem(a, b)
  IN IF res.some
     THEN [tag |-> "Ok", val |-> SignExt(res.val, 4), kind |-> ""]
     ELSE [tag |-> "Trap", val |-> Zero(4),
           kind |-> IF IsZero(b) THEN "DivisionByZero" ELSE "InvalidConversionToInt"]

(***************************************************************************)
(* Run time: the emitted closures                                          *)
(***************************************************************************)
\* Trap<T>: Ok(v), Err(trap); a panic (todo!, unreachable!) is a third outcome
ROk(v, ctx) == [tag |-> "Ok", val |-> v, ctx |-> ctx]
RTrap(kind, ctx) == [tag |-> "Trap", kind |-> kind, ctx |-> ctx]
RPanic(msg, ctx) == [tag |-> "Panic", msg |-> msg, ctx |-> ctx]

\* store.stack.get_local_val
get_local_val(ctx, local_idx) == ctx.locals[local_idx + 1]

\* what the store and the execution context answer to the next call:
\* push_val may trap; invoke_function returns Some(v), None or a trap
CallOutcome(pushed, ret, trap) == [pushed |-> pushed, ret |-> ret, trap |-> trap]

\* the `?` operator: an outcome other than Ok is returned as it is, an Ok
\* one is handed to the rest of the function
Try(r, Rest(_)) == IF r.tag # "Ok" THEN r ELSE Rest(r)

RECURSIVE OpFunc(_, _)

\* Input::resolv
Input_resolv(input, ctx) ==
  CASE input.tag = "Local" -> ROk(get_local_val(ctx, input.idx), ctx)
    [] input.tag = "Const" -> ROk(input.val, ctx)
    [] input.tag = "Op" -> OpFunc(input.f, ctx)

\* the body of the closure pushed for `call`, after its operand resolved to val
call_closure(func_idx, val, ctx) ==
  LET n == Len(SelectSeq(ctx.log, LAMBDA e : e.ev = "call"))
      o == IF n < Len(ctx.oracle) THEN ctx.oracle[n + 1]
           ELSE CallOutcome(TRUE, None, "")
      entry == [ev |-> "call", func |-> func_idx, arg |-> val,
                pushed |-> o.pushed, trap |-> o.trap]
      after == [ctx EXCEPT !.log = Append(@, entry)]
  IN IF ~o.pushed THEN RTrap(o.trap, after)
     ELSE IF o.trap # "" THEN RTrap(o.trap, after)
     ELSE IF o.ret.some THEN ROk(o.ret.val, after)
     ELSE ROk(Zero(4), after)

\* the operator a closure applies once both operands are at hand
apply(f, left, right) ==
  CASE f.fn \in {"BinLocalConst", "BinOpLocal", "BinOpConst", "BinOpOp", "BinSlow"} ->
         binop(f.ty, f.op, left, right)
    [] f.fn \in {"RelLocalConst", "RelSlow"} -> relop(f.ty, f.op, left, right)
    [] f.fn = "Shift" -> shiftop(f.ty, f.op, f.mask, left, right)

\* an OpFunc closure applied to (state, store)
OpFunc(f, ctx) ==
  CASE f.fn = "Call" ->
         Try(Input_resolv(f.val, ctx), LAMBDA v : call_closure(f.idx, v.val, v.ctx))
    [] f.fn \in {"BinLocalConst", "RelLocalConst"} ->
         ROk(apply(f, get_local_val(ctx, f.left), f.right), ctx)
    [] f.fn = "BinOpLocal" ->
         Try(OpFunc(f.left, ctx), LAMBDA l :
           ROk(apply(f, l.val, get_local_val(l.ctx, f.right)), l.ctx))
    [] f.fn = "BinOpConst" ->
         Try(OpFunc(f.left, ctx), LAMBDA l :
           ROk(apply(f, l.val, f.right), l.ctx))
    [] f.fn = "BinOpOp" ->
         Try(OpFunc(f.left, ctx), LAMBDA l :
           Try(OpFunc(f.right, l.ctx), LAMBDA r :
             ROk(apply(f, l.val, r.val), r.ctx)))
    [] f.fn \in {"BinSlow", "RelSlow", "Shift"} ->
         Try(Input_resolv(f.left, ctx), LAMBDA l :
           Try(Input_resolv(f.right, l.ctx), LAMBDA r :
             ROk(apply(f, l.val, r.val), r.ctx)))

RECURSIVE Block_run(_, _)
RECURSIVE Block_run_from(_, _, _)
RECURSIVE EvalFunc(_, _)

\* an EvalFunc closure (a step of a Block) applied to (state, store)
EvalFunc(f, ctx) ==
  CASE f.fn = "RetLocal" -> ROk(Return(Some(get_local_val(ctx, f.local_idx))), ctx)
    [] f.fn = "RetConst" -> ROk(Return(Some(f.const_val)), ctx)
    [] f.fn = "RetOp" ->
         Try(OpFunc(f.closure, ctx), LAMBDA r : ROk(Return(Some(r.val)), r.ctx))
    [] f.fn = "RetNone" -> ROk(Return(None), ctx)
    [] f.fn = "IfElseOp" ->
         Try(OpFunc(f.closure, ctx), LAMBDA v :
           IF IsZero(v.val) THEN Block_run(f.else_block, v.ctx)
           ELSE Block_run(f.if_block, v.ctx))
    [] f.fn = "IfElse" ->
         Try(Input_resolv(f.val, ctx), LAMBDA v :
           IF IsZero(v.val) THEN Block_run(f.else_block, v.ctx)
           ELSE Block_run(f.if_block, v.ctx))
    [] f.fn = "IfOp" ->
         Try(OpFunc(f.closure, ctx), LAMBDA v :
           IF IsZero(v.val) THEN ROk(End, v.ctx)
           ELSE Block_run(f.if_block, v.ctx))
    [] f.fn = "If" ->
         Try(Input_resolv(f.val, ctx), LAMBDA v :
           IF IsZero(v.val) THEN ROk(End, v.ctx)
           ELSE Block_run(f.if_block, v.ctx))
    \* any other closure of type EvalFunc: one with a fixed outcome
    [] f.fn = "Given" ->
         IF f.trap # ""
         THEN RTrap(f.trap, [ctx EXCEPT !.log = Append(@, [ev |-> "step", id |-> f.id,
                                                           trap |-> f.trap])])
         ELSE ROk(f.ret, [ctx EXCEPT !.log = Append(@, [ev |-> "step", id |-> f.id,
                                                        trap |-> f.trap])])

\* Block_run_from with `f(state, store)?` replaced by a match that takes a
\* trap for Action::End
Block_run_from_swallow(block, i, ctx) ==
  IF i > Len(block.eval) THEN ROk(End, ctx)
  ELSE Try(IF EvalFunc(block.eval[i], ctx).tag = "Trap"
           THEN ROk(End, EvalFunc(block.eval[i], ctx).ctx)
           ELSE EvalFunc(block.eval[i], ctx), LAMBDA r :
         CASE r.val.a = "Return" -> r
           [] r.val.a = "End" -> Block_run_from(block, i + 1, r.ctx)
           [] r.val.a = "Branch" ->
                IF block.depth > r.val.depth THEN r
                ELSE IF block.depth = r.val.depth
                THEN RPanic("not yet implemented: handle branch", r.ctx)
                ELSE RPanic("unreachable: Can't branch into a sub-block.", r.ctx))

\* Block::run: `for f in self.eval.iter()` from step i on
Block_run_from(block, i, ctx) ==
  IF i > Len(block.eval) THEN ROk(End, ctx)
  ELSE Try(EvalFunc(block.eval[i], ctx), LAMBDA r :
         CASE r.val.a = "Return" -> r
           [] r.val.a = "End" -> Block_run_from(block, i + 1, r.ctx)
           [] r.val.a = "Branch" ->
                IF block.depth > r.val.depth THEN r
                ELSE IF block.depth = r.val.depth
                THEN RPanic("not yet implemented: handle branch", r.ctx)
                ELSE RPanic("unreachable: Can't branch into a sub-block.", r.ctx))

Block_run(block, ctx) == Block_run_from(block, 1, ctx)

\* the closure compile_function hands to Function::new_compiled
Function_invoke(function, ctx) ==
  Try(Block_run(function.block, ctx), LAMBDA r :
    IF r.val.a = "Return" THEN ROk(r.val.val, r.ctx)
    ELSE RPanic("unreachable: Compiled function missing 'Return' action.", r.ctx))

(***************************************************************************)
(* Inputs: modules, locals, answers of the execution context               *)
(***************************************************************************)
GenLen == 2
MaxFuncs == 2
MaxCalls == 2

RECURSIVE SeqsUpTo(_, _)
\* the non-empty sequences over S of length at most n
SeqsUpTo(S, n) ==
  IF n = 0 THEN {}
  ELSE LET shorter == SeqsUpTo(S, n - 1)
       IN {<<x>> : x \in S} \cup shorter \cup {Append(q, x) : q \in shorter, x \in S}

RECURSIVE SeqsOfLen(_, _)
SeqsOfLen(S, n) ==
  IF n = 0 THEN {<<>>} ELSE {Append(q, x) : q \in SeqsOfLen(S, n - 1), x \in S}

I(op) == Instr(op, 0)

\* one instruction of every kind compile_block tells apart, and three it does not
Alphabet ==
  {I("Block"), I("Loop"), I("If"), I("Else"), I("End"), I("Return"),
   I("Br"), I("BrIf"), I("BrTable"), I("Call"), I("GetLocal"),
   Instr("I32Const", 1), Instr("I64Const", One(4)),
   I("I32Add"), I("I32Sub"), I("I32LtS"),
   I("I32Mul"), I("I32Eqz"), I("Nop")}

\* operand-producing instruction sequences, one per form of Input
Atoms ==
  {<<Instr("GetLocal", 0)>>, <<Instr("GetLocal", 1)>>,
   <<Instr("I32Const", 1)>>, <<Instr("I32Const", -1)>>,
   <<Instr("I32Const", 7), Instr("Call", 1)>>,
   <<Instr("GetLocal", 1), Instr("Call", 2)>>}

\* a; b; op; return; end
ExprPrograms ==
  {a \o b \o <<I(op), I("Return"), I("End")>> :
     a \in Atoms, b \in Atoms, op \in {"I32Add", "I32Sub", "I32LtS"}}

\* cond; if; a; return; [else; b; return;] end; c; return; end
IfPrograms ==
  {cond \o <<I("If")>> \o a \o <<I("Return")>> \o mid \o <<I("End")>>
        \o c \o <<I("Return"), I("End")>> :
     cond \in Atoms, a \in {<<Instr("I32Const", 1)>>, <<Instr("I32Const", 7), Instr("Call", 1)>>},
     mid \in {<<>>, <<I("Else"), Instr("I32Const", 2), I("Return")>>,
              <<I("Else"), Instr("I32Const", 2), Instr("Call", 2), I("Return")>>},
     c \in {<<Instr("I32Const", 3)>>, <<Instr("I32Const", 3), Instr("Call", 3)>>}}

\* a return two blocks (or a loop and a block) deep, then a second return
NestedReturnPrograms ==
  { <<I("Block"), I("Block"), Instr("I32Const", 7), I("Return"), I("End"), I("End"),
      Instr("I32Const", 9), I("Return"), I("End")>>,
    <<I("Loop"), I("Block"), Instr("I32Const", 7), I("Return"), I("End"), I("End"),
      Instr("I32Const", 9), I("Return"), I("End")>> }

\* more control flow: a call inside a block, nested ifs, a loop closed by a
\* conditional branch to its head, a branch out of a block
ControlPrograms ==
  { <<I("Block"), Instr("I32Const", 7), Instr("Call", 1), I("Return"), I("End"),
      Instr("I32Const", 9), I("Return"), I("End")>>,
    <<Instr("GetLocal", 0), I("If"), Instr("GetLocal", 1), I("If"),
      Instr("I32Const", 7), Instr("Call", 1), I("Return"), I("End"),
      Instr("I32Const", 8), Instr("Call", 2), I("Return"), I("End"),
      Instr("I32Const", 9), Instr("Call", 3), I("Return"), I("End")>>,
    <<Instr("GetLocal", 0), I("If"), Instr("GetLocal", 0), I("If"),
      Instr("GetLocal", 0), I("If"), Instr("I32Const", 7), I("Return"),
      I("End"), I("End"), I("End"), Instr("I32Const", 9), I("Return"), I("End")>>,
    <<I("Loop"), Instr("GetLocal", 0), Instr("BrIf", 0), I("End"),
      Instr("GetLocal", 0), I("Return"), I("End")>>,
    <<I("Loop"), Instr("GetLocal", 0), Instr("I32Const", 1), I("I32Sub"),
      Instr("BrIf", 0), I("End"), Instr("I32Const", 0), I("Return"), I("End")>>,
    <<I("Block"), Instr("Br", 0), I("End"), Instr("I32Const", 9), I("Return"), I("End")>> }

\* straight-line code with calls: a call, or a call on a call's result, then return
CallPrograms ==
  { <<Instr("I32Const", 7), Instr("Call", 1), I("Return"), I("End")>>,
    <<Instr("GetLocal", 1), Instr("Call", 2), I("Return"), I("End")>>,
    <<Instr("I32Const", 7), Instr("Call", 1), Instr("Call", 2), I("Return"), I("End")>> }

Programs ==
  SeqsUpTo(Alphabet, GenLen) \cup ExprPrograms \cup IfPrograms
    \cup NestedReturnPrograms \cup ControlPrograms \cup CallPrograms

Functions == [code : Programs, ret : BOOLEAN]

\* functions for the modules of several functions: two that compile, two
\* that fail validation, one that panics
FewFunctions ==
  { [code |-> <<Instr("I32Const", 1), I("Return"), I("End")>>, ret |-> TRUE],
    [code |-> <<I("Return"), I("End")>>, ret |-> FALSE],
    [code |-> <<I("I32Add"), I("End")>>, ret |-> TRUE],
    [code |-> <<I("Else"), I("End")>>, ret |-> FALSE],
    [code |-> <<I("Nop"), I("End")>>, ret |-> FALSE] }

Modules ==
  {<<f>> : f \in Functions}
    \cup UNION {SeqsOfLen(FewFunctions, n) : n \in (0..MaxFuncs) \ {1}}

LocalVals == {Zero(4), One(4), ZeroExt(MaxVal(2), 4), Ones(4)}
Locals == {<<a, b>> : a \in LocalVals, b \in LocalVals}

CallOutcomes ==
  { CallOutcome(FALSE, None, "StackOverflow"),
    CallOutcome(TRUE, Some(SignExt(I32(5), 4)), ""),
    CallOutcome(TRUE, Some(Zero(4)), ""),
    CallOutcome(TRUE, None, ""),
    CallOutcome(TRUE, None, "Unreachable") }

Oracles == SeqsOfLen(CallOutcomes, MaxCalls)

Context(locals, oracle) == [locals |-> locals, oracle |-> oracle, log |-> <<>>]

(***************************************************************************)
(* Spec: Compiler::compile on a module, then invocations of its functions  *)
(***************************************************************************)
Idle == [tag |-> "None"]

Init ==
  /\ module \in Modules
  /\ compiled = <<>>
  /\ idx = 0
  /\ result = [tag |-> "Compiling"]
  /\ inv = Idle
  /\ blk = Idle
  /\ num = Idle

\* CompileFunction with `?` replaced by a `break`: the functions compiled so
\* far are returned
CompileFunction_break ==
  /\ result.tag = "Compiling"
  /\ idx < Len(module)
  /\ LET r == compile_function(module, idx)
     IN IF r.tag = "Ok"
        THEN /\ compiled' = Append(compiled, r.function)
             /\ idx' = idx + 1
             /\ UNCHANGED result
        ELSE /\ result' = [tag |-> "Ok", funcs |-> compiled]
             /\ UNCHANGED <<compiled, idx>>
  /\ UNCHANGED <<module, inv, blk, num>>

\* one iteration of `for idx in 0..len { self.compile_function(idx)?; }`
CompileFunction ==
  /\ result.tag = "Compiling"
  /\ idx < Len(module)
  /\ LET r == compile_function(module, idx)
     IN IF r.tag = "Ok"
        THEN /\ compiled' = Append(compiled, r.function)
             /\ idx' = idx + 1
             /\ UNCHANGED result
        ELSE /\ result' = r
             /\ UNCHANGED <<compiled, idx>>
  /\ UNCHANGED <<module, inv, blk, num>>

\* the loop is over: `Ok(self.compiled)`
CompileDone ==
  /\ result.tag = "Compiling"
  /\ idx >= Len(module)
  /\ result' = [tag |-> "Ok", funcs |-> compiled]
  /\ UNCHANGED <<module, compiled, idx, inv, blk, num>>

\* what the caller of a closure observes: the value, trap or panic, and the
\* calls and steps that ran
Observed(r) ==
  [tag |-> r.tag,
   val |-> IF r.tag = "Ok" THEN r.val ELSE None,
   kind |-> IF r.tag = "Trap" THEN r.kind ELSE IF r.tag = "Panic" THEN r.msg ELSE "",
   log |-> r.ctx.log]

\* the runtime invokes a compiled function's closure; the closures keep no
\* state between invocations, so a behaviour follows one invocation
Invoke ==
  /\ result.tag = "Ok"
  /\ inv = Idle
  /\ \E f \in 1..Len(result.funcs), locals \in Locals, oracle \in Oracles :
       inv' = [tag |-> "Invoked", func |-> f - 1, locals |-> locals,
               out |-> Observed(Function_invoke(result.funcs[f],
                                                Context(locals, oracle)))]
  /\ UNCHANGED <<module, compiled, idx, result, blk, num>>

Next == CompileFunction \/ CompileDone \/ Invoke

Spec == Init /\ [][Next]_vars

(***************************************************************************)
(* Properties of Compiler::compile and the compiled functions (Spec)    *)
(***************************************************************************)
CompiledAlone(f) == compile_function(<<f>>, 0)

\* C1: compile returns either all N functions, the i-th compiled from the
\* module's function i and as it compiles on its own, or the failure of the
\* first function that fails, with no list of functions
C1_CompileAllOrNothing ==
  /\ result.tag = "Ok" =>
       /\ Len(result.funcs) = Len(module)
       /\ \A i \in 1..Len(module) :
            /\ result.funcs[i].func = i - 1
            /\ CompiledAlone(module[i]).tag = "Ok"
            /\ result.funcs[i].block = CompiledAlone(module[i]).function.block
  /\ result.tag \in {"Err", "Panic"} =>
       /\ "funcs" \notin DOMAIN result
       /\ idx < Len(module)
       /\ \A j \in 1..idx : CompiledAlone(module[j]).tag = "Ok"
       /\ CompiledAlone(module[idx + 1]) = result

\* C1 witness: the second function fails validation after the first compiled
C1_Witness ==
  /\ result.tag = "Err"
  /\ idx = 1
  /\ Len(compiled) = 1

HasElse(code) == \E i \in 1..Len(code) : code[i].op = "Else"

\* C2: a function with if ... else ... end compiles, its if step holds a
\* second Block of kind Else, and an invocation runs the else arm (value 2)
\* for a zero condition and the then arm (value 1) otherwise
C2_IfElseSelects ==
  \A i \in 1..Len(module) :
    (module[i].code \in IfPrograms /\ HasElse(module[i].code) /\ module[i].ret) =>
      /\ result.tag \notin {"Err", "Panic"}
      /\ result.tag = "Ok" =>
           /\ result.funcs[i].block.eval[1].fn \in {"IfElse", "IfElseOp"}
           /\ result.funcs[i].block.eval[1].else_block.kind = "Else"
      /\ (/\ inv.tag = "Invoked"
          /\ inv.func = i - 1
          /\ module[i].code[1] = Instr("GetLocal", 0)
          /\ module[i].code[3] = Instr("I32Const", 1)
          /\ module[i].code[6] = Instr("I32Const", 2)
          /\ module[i].code[7] = I("Return")) =>
           /\ inv.out.tag = "Ok"
           /\ inv.out.log = <<>>
           /\ inv.out.val = Some(SignExt(I32(IF IsZero(inv.locals[1]) THEN 2 ELSE 1), 4))

\* C3: a return nested in two blocks (or a loop and a block) gives the
\* function's result, here 7, and the return after the blocks does not run
C3_ReturnPropagates ==
  \A i \in 1..Len(module) :
    (/\ module[i].code \in NestedReturnPrograms
     /\ module[i].ret
     /\ inv.tag = "Invoked"
     /\ inv.func = i - 1) =>
       /\ inv.out.tag = "Ok"
       /\ inv.out.val = Some(SignExt(I32(7), 4))

Pushes == {"GetLocal", "I32Const", "I64Const"}

\* operands an instruction pops from the compile-time stack
Needs(op, ret) ==
  CASE op \in {"I32Add", "I32Sub", "I32Mul", "I32LtS"} -> 2
    [] op \in {"I32Eqz", "If", "Call"} -> 1
    [] op = "Return" -> IF ret THEN 1 ELSE 0
    [] OTHER -> 0

\* after n instructions that only push, instruction n + 1 pops more than n
Underflows(f) ==
  \E n \in 0..(Len(f.code) - 1) :
    /\ \A k \in 1..n : f.code[k].op \in Pushes
    /\ Needs(f.code[n + 1].op, f.ret) > n

\* C5: when an operand-consuming instruction is reached with too few
\* operands, compile returns the validation error; it does not panic and
\* returns no compiled function
C5_UnderflowIsValidationError ==
  (Len(module) >= 1 /\ Underflows(module[1]) /\ result.tag # "Compiling") =>
    result = CErr("ValidationError: Value stack empty")

Handled ==
  {"Block", "Loop", "If", "Else", "End", "Return", "Call", "GetLocal",
   "I32Const", "I64Const", "I32Add", "I32Sub", "I32LtS"}

\* C10: an opcode without a handler makes compile return a compile error,
\* and no compiled function
C10_UnsupportedIsCompileError ==
  (Len(module) >= 1 /\ module[1].code[1].op \notin Handled /\ result.tag # "Compiling") =>
    /\ result.tag = "Err"
    /\ "funcs" \notin DOMAIN result

(***************************************************************************)
(* SpecBlock: Block::run, the if steps and the invocation closure on       *)
(* Blocks whose steps have given outcomes                                  *)
(***************************************************************************)
MaxSteps == 2

\* outcomes of a step: an Action, or a trap
StepOutcomes ==
  { [ret |-> End, trap |-> ""],
    [ret |-> Return(Some(One(4))), trap |-> ""],
    [ret |-> Branch(0), trap |-> ""],
    [ret |-> Branch(1), trap |-> ""],
    [ret |-> Branch(2), trap |-> ""],
    [ret |-> End, trap |-> "Unreachable"],
    [ret |-> End, trap |-> "DivisionByZero"] }

\* a step with a fixed outcome; id tells the steps of a run apart
Given(id, o) == [fn |-> "Given", id |-> id, ret |-> o.ret, trap |-> o.trap]

\* a Block of the given kind and depth whose i-th step has outcome os[i]
GivenBlock(kind, depth, os, base) ==
  [kind |-> kind, depth |-> depth,
   eval |-> Build(LAMBDA i : Given(base + i, os[i]), 1, Len(os))]

\* the else arms: one returns, one traps
ElseBlocks ==
  { GivenBlock("Else", 1, <<[ret |-> Return(Some(Zero(4))), trap |-> ""]>>, 20),
    GivenBlock("Else", 1, <<[ret |-> End, trap |-> "MemoryAccessOutOfBounds"]>>, 20) }

\* the condition operands of an if step: a local, a constant, a call
Conds ==
  { Local(0), Const(One(4)),
    Op([fn |-> "Call", idx |-> 1, val |-> Const(Zero(4))]) }

\* the step compile_if pushes for condition val and the two arms
IfStep(val, if_block, else_block) ==
  IF else_block.some
  THEN IF val.tag = "Op"
       THEN [fn |-> "IfElseOp", closure |-> val.f,
             if_block |-> if_block, else_block |-> else_block.val]
       ELSE [fn |-> "IfElse", val |-> val,
             if_block |-> if_block, else_block |-> else_block.val]
  ELSE IF val.tag = "Op"
       THEN [fn |-> "IfOp", closure |-> val.f, if_block |-> if_block]
       ELSE [fn |-> "If", val |-> val, if_block |-> if_block]

\* a function's root Block: the if step, then a step that returns
RootBlock(step) ==
  [kind |-> "Block", depth |-> 0,
   eval |-> <<step, Given(30, [ret |-> Return(Some(Ones(4))), trap |-> ""])>>]

BlockOracles ==
  { <<CallOutcome(TRUE, Some(One(4)), "")>>,
    <<CallOutcome(TRUE, None, "")>>,
    <<CallOutcome(TRUE, None, "Unreachable")>>,
    <<CallOutcome(FALSE, None, "StackOverflow")>> }

InitBlock ==
  /\ module = <<>>
  /\ compiled = <<>>
  /\ idx = 0
  /\ result = Idle
  /\ inv = Idle
  /\ num = Idle
  /\ \E kind \in {"Block", "Loop", "If", "Else"}, os \in SeqsUpTo(StepOutcomes, MaxSteps),
        l \in {Zero(4), One(4)}, oracle \in BlockOracles :
       blk = [tag |-> "Input", block |-> GivenBlock(kind, 1, os, 0),
              ctx |-> Context(<<l, Zero(4)>>, oracle)]

\* Block::run on the Block
RunBlock ==
  /\ blk.tag = "Input"
  /\ blk' = [tag |-> "Ran", block |-> blk.block, ctx |-> blk.ctx,
             out |-> Observed(Block_run(blk.block, blk.ctx))]
  /\ UNCHANGED <<module, compiled, idx, result, inv, num>>

\* Block::run on a root Block that holds the Block as the then arm of an if step
RunIf ==
  /\ blk.tag = "Input"
  /\ \E val \in Conds, else_block \in {None} \cup {Some(e) : e \in ElseBlocks} :
       blk' = [tag |-> "RanIf", block |-> blk.block, ctx |-> blk.ctx, val |-> val,
               else_block |-> else_block,
               out |-> Observed(Block_run(RootBlock(IfStep(val, blk.block, else_block)),
                                          blk.ctx))]
  /\ UNCHANGED <<module, compiled, idx, result, inv, num>>

\* the invocation closure of a function with that root Block
InvokeRoot ==
  /\ blk.tag = "Input"
  /\ \E val \in Conds, else_block \in {None} \cup {Some(e) : e \in ElseBlocks} :
       blk' = [tag |-> "Invoked", block |-> blk.block, ctx |-> blk.ctx, val |-> val,
               else_block |-> else_block,
               out |-> Observed(Function_invoke(
                         [func |-> 0,
                          block |-> RootBlock(IfStep(val, blk.block, else_block))],
                         blk.ctx))]
  /\ UNCHANGED <<module, compiled, idx, result, inv, num>>

NextBlock == RunBlock \/ RunIf \/ InvokeRoot

SpecBlock == InitBlock /\ [][NextBlock]_vars

\* the outcomes of the Block's steps up to and including the first that is not End
RECURSIVE FirstNotEnd(_, _)
FirstNotEnd(eval, i) ==
  IF i > Len(eval) THEN [ret |-> End, trap |-> "", at |-> 0]
  ELSE IF eval[i].trap = "" /\ eval[i].ret = End THEN FirstNotEnd(eval, i + 1)
  ELSE [ret |-> eval[i].ret, trap |-> eval[i].trap, at |-> i]

\* C4: when a step yields Branch(d) with d the Block's own depth, a Block of
\* kind Block/If/Else finishes normally with End, and a Block of kind Loop
\* restarts from its first step: it does not fail
C4_BranchToOwnDepth ==
  (/\ blk.tag = "Ran"
   /\ FirstNotEnd(blk.block.eval, 1).trap = ""
   /\ FirstNotEnd(blk.block.eval, 1).ret = Branch(blk.block.depth)) =>
     /\ blk.out.tag # "Panic"
     /\ blk.block.kind # "Loop" =>
          /\ blk.out.tag = "Ok"
          /\ blk.out.val = End
          /\ Len(blk.out.log) = FirstNotEnd(blk.block.eval, 1).at

Trapped(log) == {i \in 1..Len(log) : log[i].trap # ""}

\* C6: a trap raised by a step or by an operand closure is the last thing
\* that runs, and the caller of Block::run, of the if step and of the
\* invocation closure gets that trap, with the same kind; a run without a
\* trapping step does not end in a trap
C6_TrapPropagates ==
  blk.tag \in {"Ran", "RanIf", "Invoked"} =>
    /\ \A i \in Trapped(blk.out.log) :
         /\ i = Len(blk.out.log)
         /\ blk.out.tag = "Trap"
         /\ blk.out.kind = blk.out.log[i].trap
    /\ blk.out.tag = "Trap" => Trapped(blk.out.log) # {}

\* C6 witness: the then arm of an if step traps in its second step, inside
\* a function's invocation closure
C6_Witness ==
  /\ blk.tag = "Invoked"
  /\ blk.out.tag = "Trap"
  /\ blk.out.kind = "DivisionByZero"
  /\ Len(blk.block.eval) = 2
  /\ Len(blk.out.log) >= 2

(***************************************************************************)
(* SpecNum: the closures of impl_numeric_ops applied to operands           *)
(***************************************************************************)
\* operand cells: 0, 1, 32, 33, 64, -1, i32::MIN (zero-extended), i64::MIN
NumVals ==
  { Zero(4), One(4), ZeroExt(<<32>>, 4), ZeroExt(<<33>>, 4), ZeroExt(<<64>>, 4),
    Ones(4), ZeroExt(MinVal(2), 4), MinVal(4) }

\* what the two calls of a run answer
NumOracles ==
  { <<CallOutcome(TRUE, Some(SignExt(I32(5), 4)), ""), CallOutcome(TRUE, Some(Ones(4)), "")>>,
    <<CallOutcome(TRUE, None, "Unreachable"), CallOutcome(TRUE, Some(One(4)), "")>>,
    <<CallOutcome(TRUE, Some(MinVal(4)), ""), CallOutcome(FALSE, None, "StackOverflow")>> }

InitNum ==
  /\ module = <<>>
  /\ compiled = <<>>
  /\ idx = 0
  /\ result = Idle
  /\ inv = Idle
  /\ blk = Idle
  /\ \E ty \in {"i32", "i64"}, left \in NumVals, right \in NumVals, oracle \in NumOracles :
       num = [tag |-> "Input", ty |-> ty, left |-> left, right |-> right,
              ctx |-> Context(<<left, right>>, oracle)]

\* the forms an operand takes on the compile-time stack: the local holding
\* it, the constant, or a call
Forms(local_idx, val) ==
  { Local(local_idx), Const(val),
    Op([fn |-> "Call", idx |-> local_idx, val |-> Const(val)]) }

\* the state before a generator runs: left pushed, then right
Operands(left, right) == State_push(State_push(State_new, left), right)

\* the closure a generator left on top of the compile-time stack
Emitted(r) == r.state.values[Len(r.state.values)].f

\* div_s, div_u, rem_s, rem_u on the two operands
ApplyDiv ==
  /\ num.tag = "Input"
  /\ \E name \in DOMAIN int_div_ops :
       num' = [tag |-> "Div", ty |-> num.ty, name |-> name, left |-> num.left,
               right |-> num.right,
               out |-> impl_int_binops_div(num.ty, name, num.left, num.right)]
  /\ UNCHANGED <<module, compiled, idx, result, inv, blk>>

\* shl, shr_s, shr_u: the generator, then the closure it emitted
ApplyShift ==
  /\ num.tag = "Input"
  /\ \E op \in {"shl", "shr_s", "shr_u"}, l \in Forms(0, num.left), r \in Forms(1, num.right) :
       num' = [tag |-> "Shift", ty |-> num.ty, op |-> op, left |-> l, right |-> r,
               ctx |-> num.ctx,
               out |-> Observed(OpFunc(
                         Emitted(impl_int_binops_mask(Operands(l, r), num.ty, op, ShiftMask)),
                         num.ctx))]
  /\ UNCHANGED <<module, compiled, idx, result, inv, blk>>

\* add, sub, mul, and, or, xor: the generator, then the closure it emitted
ApplyBinop ==
  /\ num.tag = "Input"
  /\ \E op \in {"add", "sub", "mul", "and", "or", "xor"},
        l \in Forms(0, num.left), r \in Forms(1, num.right) :
       num' = [tag |-> "Binop", ty |-> num.ty, op |-> op, left |-> l, right |-> r,
               ctx |-> num.ctx,
               out |-> Observed(OpFunc(Emitted(impl_int_binops(Operands(l, r), num.ty, op)),
                                       num.ctx))]
  /\ UNCHANGED <<module, compiled, idx, result, inv, blk>>

\* eq, ne, lt_s, lt_u, ...: the generator, then the closure it emitted
ApplyRelop ==
  /\ num.tag = "Input"
  /\ \E op \in {"eq", "ne", "lt_s", "lt_u", "gt_s", "gt_u", "le_s", "le_u", "ge_s", "ge_u"},
        l \in Forms(0, num.left), r \in Forms(1, num.right) :
       num' = [tag |-> "Relop", ty |-> num.ty, op |-> op, left |-> l, right |-> r,
               ctx |-> num.ctx,
               out |-> Observed(OpFunc(Emitted(impl_int_relops(Operands(l, r), num.ty, op)),
                                       num.ctx))]
  /\ UNCHANGED <<module, compiled, idx, result, inv, blk>>

NextNum == ApplyDiv \/ ApplyShift \/ ApplyBinop \/ ApplyRelop

SpecNum == InitNum /\ [][NextNum]_vars

\* C7: for both widths a zero divisor makes div_s, div_u, rem_s and rem_u
\* trap with DivisionByZero whatever the dividend, div_s of the minimum value
\* by -1 traps with InvalidConversionToInt, and neither kind stands for the
\* other: DivisionByZero only with a zero divisor, InvalidConversionToInt
\* only with a non-zero one
C7_DivisionTraps ==
  num.tag = "Div" =>
    LET a == Trunc(num.left, Limbs(num.ty))
        b == Trunc(num.right, Limbs(num.ty))
    IN /\ IsZero(b) => (num.out.tag = "Trap" /\ num.out.kind = "DivisionByZero")
       /\ (num.name = "div_s" /\ a = MinVal(Limbs(num.ty)) /\ b = Ones(Limbs(num.ty))) =>
            (num.out.tag = "Trap" /\ num.out.kind = "InvalidConversionToInt")
       /\ num.out.kind = "DivisionByZero" => IsZero(b)
       /\ num.out.kind = "InvalidConversionToInt" => ~IsZero(b)

\* C7 witness: 64-bit div_s of the minimum value by -1 trapped
C7_Witness ==
  /\ num.tag = "Div"
  /\ num.ty = "i64"
  /\ num.name = "div_s"
  /\ num.left = MinVal(4)
  /\ num.right = Ones(4)
  /\ num.out.kind = "InvalidConversionToInt"

\* the closure's shift of the ty view of cell v by k bits, 0 <= k < W
ShiftedBy(ty, op, v, k) ==
  ZeroExt(IF op = "shl" THEN ShlBy(Trunc(v, Limbs(ty)), k)
          ELSE SarBy(Trunc(v, Limbs(ty)), k), 4)

\* C8: for both widths W the shl, shr_s and shr_u closures give, for every
\* operand and every shift amount s, the operand shifted by s mod W
C8_ShiftAmountMasked ==
  (num.tag = "Shift" /\ num.left.tag = "Const" /\ num.right.tag = "Const") =>
    /\ num.out.tag = "Ok"
    /\ num.out.val = ShiftedBy(num.ty, num.op, num.left.val,
                               num.right.val[1] % (16 * Limbs(num.ty)))

\* the generic form: resolve the left operand, then the right one, then
\* apply the operator
Generic(tag, ty, op, left, right, ctx) ==
  Try(Input_resolv(left, ctx), LAMBDA l :
    Try(Input_resolv(right, l.ctx), LAMBDA r :
      ROk(IF tag = "Binop" THEN binop(ty, op, l.val, r.val)
          ELSE relop(ty, op, l.val, r.val), r.ctx)))

\* C9: for every binary and relational generator and every combination of
\* operand forms the emitted closure gives the value or trap, and makes the
\* calls, of the generic form
C9_SpecializedIsGeneric ==
  num.tag \in {"Binop", "Relop"} =>
    num.out = Observed(Generic(num.tag, num.ty, num.op, num.left, num.right, num.ctx))

\* C9 witness: sub over two calls (the Op/Op closure) gave a value after
\* both calls ran
C9_Witness ==
  /\ num.tag = "Binop"
  /\ num.op = "sub"
  /\ num.left.tag = "Op"
  /\ num.right.tag = "Op"
  /\ num.out.tag = "Ok"
  /\ Len(num.out.log) = 2

\* C11: div_u and rem_u, for both widths, give a result and no trap for
\* every pair of operand bit patterns with a non-zero divisor
C11_UnsignedNeverTraps ==
  (/\ num.tag = "Div"
   /\ num.name \in {"div_u", "rem_u"}
   /\ ~IsZero(Trunc(num.right, Limbs(num.ty)))) =>
     /\ num.out.tag = "Ok"
     /\ num.out.kind # "InvalidConversionToInt"

(***************************************************************************)
(* SpecCompile: compile_block on a function's code from a given State      *)
(***************************************************************************)
\* the functions whose code nests blocks, loops and ifs, and the expressions
CompilePrograms ==
  ExprPrograms \cup IfPrograms \cup NestedReturnPrograms \cup ControlPrograms

InitCompile ==
  /\ module \in {<<f>> : f \in [code : CompilePrograms, ret : BOOLEAN]}
  /\ compiled = <<>>
  /\ idx = 0
  /\ result = Idle
  /\ inv = Idle
  /\ blk = Idle
  /\ num = Idle

\* the Compiler once compile_function has loaded function 0
Loaded(func) == [code |-> func.code, ret_type |-> func.ret, pc_end |-> Len(func.code)]

\* compile_function's call: a new State, kind Block
CompileRoot ==
  /\ result = Idle
  /\ result' = [tag |-> "Block", kind |-> "Block", entry |-> State_new,
                out |-> compile_block(Loaded(module[1]), State_new, "Block")]
  /\ UNCHANGED <<module, compiled, idx, inv, blk, num>>

\* a call of compile_block for a region that starts at pc, at some depth,
\* with or without an operand on the compile-time stack
CompileBlock ==
  /\ result = Idle
  /\ \E kind \in {"Block", "Loop", "If", "Else"}, depth \in 0..(DepthCap - 1),
        pc \in 0..(Len(module[1].code) - 1), values \in {<<>>, <<Local(0)>>} :
       LET entry == [values |-> values, depth |-> depth, pc |-> pc]
       IN result' = [tag |-> "Block", kind |-> kind, entry |-> entry,
                     out |-> compile_block(Loaded(module[1]), entry, kind)]
  /\ UNCHANGED <<module, compiled, idx, inv, blk, num>>

NextCompile == CompileRoot \/ CompileBlock

SpecCompile == InitCompile /\ [][NextCompile]_vars

\* the arms of an if step
Arms(f) ==
  IF f.fn \in {"IfElse", "IfElseOp"} THEN {f.if_block, f.else_block}
  ELSE IF f.fn \in {"If", "IfOp"} THEN {f.if_block}
  ELSE {}

\* every Block held by a step of block is one deeper than block, and so on down
RECURSIVE DepthsNested(_)
DepthsNested(block) ==
  \A i \in 1..Len(block.eval) :
    \A child \in Arms(block.eval[i]) :
      /\ child.depth = block.depth + 1
      /\ DepthsNested(child)

\* C12: a call of compile_block that returns Ok, for any kind and any
\* nesting inside, leaves state.depth at its value on entry; the Block it
\* returns has that value as depth (0 for the root Block) and each child
\* Block has its parent's depth plus one
C12_DepthRestored ==
  (result.tag = "Block" /\ result.out.tag = "Ok") =>
    /\ result.out.state.depth = result.entry.depth
    /\ result.out.block.depth = result.entry.depth
    /\ result.out.block.kind = result.kind
    /\ result.entry = State_new => result.out.block.depth = 0
    /\ DepthsNested(result.out.block)

\* C12 witness: a loop region entered at depth 1 returned a Block that holds
\* an if step whose arm holds an if step
C12_Witness ==
  /\ result.tag = "Block"
  /\ result.out.tag = "Ok"
  /\ result.kind = "Loop"
  /\ result.entry.depth = 1
  /\ \E i \in 1..Len(result.out.block.eval) :
       \E child \in Arms(result.out.block.eval[i]) :
         \E j \in 1..Len(child.eval) : Arms(child.eval[j]) # {}

\* the callees of the call instructions of code, in code order
CallsOf(code) ==
  LET calls == SelectSeq(code, LAMBDA op : op.op = "Call")
  IN Build(LAMBDA i : calls[i].arg, 1, Len(calls))

\* the callees invoked by a run, in the order of their invocation
Invoked(log) ==
  LET calls == SelectSeq(log, LAMBDA e : e.ev = "call")
  IN Build(LAMBDA i : calls[i].func, 1, Len(calls))

\* C13: in straight-line code every call lies on the executed path: an
\* invocation runs the calls in code order, each at most once, and a run
\* that no trap cut short has run each call exactly once, whether or not
\* the call's result is consumed
C13_CallsRunOnce ==
  \A i \in 1..Len(module) :
    (/\ module[i].code \in CallPrograms \cup ExprPrograms
     /\ inv.tag = "Invoked"
     /\ inv.func = i - 1) =>
       /\ Len(Invoked(inv.out.log)) <= Len(CallsOf(module[i].code))
       /\ Invoked(inv.out.log)
            = SubSeq(CallsOf(module[i].code), 1, Len(Invoked(inv.out.log)))
       /\ inv.out.tag = "Ok" => Invoked(inv.out.log) = CallsOf(module[i].code)

====
